---- MODULE Spec2Model ----
(***************************************************************************)
(* Model of src/smallintset.c: a set of small integers stored biased by    *)
(* one in an open-addressing table whose element type is the narrowest of  *)
(* uint8/uint16/uint32, with one serialized writer (jl_smallintset_insert, *)
(* smallintset_rehash) and readers that capture the table reference.       *)
(*                                                                         *)
(* A size_t is modelled as a pair <<hi, lo>> standing for hi * 2^16 + lo,  *)
(* so that 0xFFFFFFFF and values beyond 2^31 are represented exactly.      *)
(***************************************************************************)
EXTENDS Integers, Sequences, FiniteSets, TLC

\* ------------------------------------------------------------------ bounds
\* number of jl_smallintset_insert calls in one behaviour
MaxInserts == 19
\* largest table the allocator is asked for
MaxCap == 2048

\* ------------------------------------------------------------- size_t words
Base == 2^16

W(n) == <<n \div Base, n % Base>>

Zero == <<0, 0>>

WInc(w) == IF w[2] = Base - 1 THEN <<w[1] + 1, 0>> ELSE <<w[1], w[2] + 1>>

WDec(w) == IF w[2] = 0 THEN <<w[1] - 1, Base - 1>> ELSE <<w[1], w[2] - 1>>

WLt(x, y) == x[1] < y[1] \/ (x[1] = y[1] /\ x[2] < y[2])

WLe(x, y) == x = y \/ WLt(x, y)

\* ------------------------------------------------------------ element types
ElTypes == {"any", "u8", "u16", "u32"}

\* jl_max_int: the largest value an element of the array can hold
jl_max_int(el) ==
    CASE el = "u8"  -> <<0, 255>>
      [] el = "u16" -> <<0, Base - 1>>
      [] el = "u32" -> <<Base - 1, Base - 1>>
      [] el = "any" -> Zero

\* the conversion of a size_t to the element type done by jl_intset_release
Truncate(el, w) ==
    CASE el = "u8"  -> <<0, w[2] % 256>>
      [] el = "u16" -> <<0, w[2]>>
      [] el = "u32" -> <<w[1] % Base, w[2]>>

\* the element type jl_alloc_int_1d picks for np (before its assertion)
AllocElType(np) ==
    IF WLt(np, <<0, 255>>) THEN "u8"
    ELSE IF WLt(np, <<0, Base - 1>>) THEN "u16"
    ELSE "u32"

\* assert(np < 0x7FFFFFFF) of jl_alloc_int_1d, reached in the uint32 branch
AllocAssertFails(np) == AllocElType(np) = "u32" /\ ~WLt(np, <<32767, Base - 1>>)

\* a table: its element type and its slots; slot index i (from 0) is slots[i+1]
NewTable(el, len) == [el |-> el, slots |-> [k \in 1..len |-> Zero]]

\* mutant: the allocator ignores np
jl_alloc_int_1d_narrow(np, len) == NewTable("u8", len)

\* jl_alloc_int_1d: a zeroed array of len elements of the type picked for np
jl_alloc_int_1d(np, len) == NewTable(AllocElType(np), len)

jl_array_nrows(t) == Len(t.slots)

jl_intref(t, idx) == t.slots[idx + 1]

jl_intset_release(t, idx, w) ==
    [t EXCEPT !.slots[idx + 1] = Truncate(t.el, w)]

\* -------------------------------------------------------------- probing
max_probe(size) == IF size <= 1024 THEN 16 ELSE size \div 64

RECURSIVE BitAnd(_, _)
BitAnd(x, y) ==
    IF x = 0 \/ y = 0 THEN 0
    ELSE 2 * BitAnd(x \div 2, y \div 2) + (IF x % 2 = 1 /\ y % 2 = 1 THEN 1 ELSE 0)

h2index(hv, sz) == BitAnd(hv, sz - 1)

\* the do-while of smallintset_insert_: the first empty slot, or -1.
\* loop[<<index, iter>>] is the rest of the loop from the test of slot index
InsertProbe(t, sz, index, orig, iter) ==
    LET loop[st \in Nat \X Nat] ==
            IF jl_intref(t, st[1]) = Zero THEN st[1]
            ELSE LET nindex == BitAnd(st[1] + 1, sz - 1)
                     niter  == st[2] + 1
                 IN  IF niter <= max_probe(sz) /\ nindex # orig
                     THEN loop[<<nindex, niter>>]
                     ELSE -1
    IN  loop[<<index, iter>>]

\* mutant: only the table of capacity 0 is refused
smallintset_insert_tiny(t, hv, val1) ==
    LET sz == jl_array_nrows(t) IN
    IF sz < 1 THEN [ok |-> FALSE, t |-> t]
    ELSE LET orig == h2index(hv, sz)
             at   == InsertProbe(t, sz, orig, orig, 0)
         IN  IF at = -1 THEN [ok |-> FALSE, t |-> t]
             ELSE [ok |-> TRUE, t |-> jl_intset_release(t, at, val1)]

\* smallintset_insert_: [ok, t] with t the table after the call
smallintset_insert_(t, hv, val1) ==
    LET sz == jl_array_nrows(t) IN
    IF sz <= 1 THEN [ok |-> FALSE, t |-> t]
    ELSE LET orig == h2index(hv, sz)
             at   == InsertProbe(t, sz, orig, orig, 0)
         IN  IF at = -1 THEN [ok |-> FALSE, t |-> t]
             ELSE [ok |-> TRUE, t |-> jl_intset_release(t, at, val1)]

NotFound == <<-1, 0>>

\* the do-while of jl_smallintset_lookup, with eq(idx, key) == (idx = key)
RECURSIVE LookupProbe(_, _, _, _, _, _)
LookupProbe(t, sz, index, orig, iter, key) ==
    LET val1 == jl_intref(t, index) IN
    IF val1 = Zero THEN NotFound
    ELSE IF WDec(val1) = key THEN WDec(val1)
    ELSE LET nindex == BitAnd(index + 1, sz - 1)
             niter  == iter + 1
         IN  IF niter <= max_probe(sz) /\ nindex # orig
             THEN LookupProbe(t, sz, nindex, orig, niter, key)
             ELSE NotFound

jl_smallintset_lookup(t, key, hv) ==
    LET sz == jl_array_nrows(t) IN
    IF sz = 0 THEN NotFound
    ELSE LookupProbe(t, sz, h2index(hv, sz), h2index(hv, sz), 0, key)

\* ------------------------------------------------------------ the caller
\* the caller inserts consecutive indices from a first index, one of Bases
Bases == {W(0), W(237), W(254), W(65534)}

\* indices at or beyond the 2^31 domain boundary: 2^31 and 2^32 - 1
OutVals == {<<32768, 0>>, <<Base - 1, Base - 1>>}

\* the caller's hash(val, data), the hash of the key data[val]: one of four key
\* patterns, fixed per behaviour. first is the first index the caller inserts.
\* "cluster" keys collide modulo 32 and modulo 64 and spread modulo 128.
\* "mix" keys have a hash that depends on the high bits of the index.
HashFns == {"id", "const", "cluster", "mix"}

Hash(hf, first, w) ==
    CASE hf = "id"      -> w[2]
      [] hf = "const"   -> 0
      [] hf = "mix"     -> w[2] + (w[2] \div 256) + w[1]
      [] hf = "cluster" ->
            LET r == IF w \in OutVals THEN 0
                     ELSE (w[1] - first[1]) * Base + w[2] - first[2]
            IN  (IF r >= 13 /\ r < 18 THEN 63 ELSE 51) + 64 * (r % 2)

\* the callers that are followed: a hash function and a first index
Configs ==
    {<<"id", b>> : b \in Bases}
        \cup {<<"cluster", W(0)>>, <<"cluster", W(237)>>, <<"const", W(0)>>,
              <<"mix", W(65534)>>}

\* the caller with "mix" keys also inserts index 254, once, at any time
ExtraVals(hf) == IF hf = "mix" THEN {W(254)} ELSE {}

\* ------------------------------------------------------------------- state
HT_N_INLINE == 32

NoTable == 0

VARIABLES
    heap,       \* the arrays that are still referenced: id -> table
    pcache,     \* *pcache, the shared reference (an id)
    nextId,     \* the id the next allocation gets
    hashfn,     \* the hash function the caller passes
    base,       \* the first index the caller inserts
    called,     \* the values jl_smallintset_insert has been called with
    pc,         \* the writer's position
    val,        \* jl_smallintset_insert's val
    a,          \* jl_smallintset_insert's a
    rh_a,       \* smallintset_rehash's a
    newsz,      \* smallintset_rehash's newsz
    np,         \* smallintset_rehash's np
    i,          \* smallintset_rehash's i
    newa,       \* smallintset_rehash's newa
    ret,        \* which call of smallintset_rehash is running
    reqsz,      \* history: newsz as passed to the running rehash
    fails,      \* history: executions of newsz <<= 1 in the running rehash
    published,  \* history: ids ever stored to *pcache
    edges,      \* ids jl_gc_wb(parent, .) has been called for
    skipped,    \* history: a failed assertion was compiled out (NDEBUG build)
    rcache,     \* the cache argument a reader in jl_smallintset_lookup holds
    failcap,    \* history: capacity at the last failed placement of this call, or -1
    r_pc,       \* the reader's position in jl_smallintset_lookup
    r_key,      \* jl_smallintset_lookup's key
    r_hv,       \* jl_smallintset_lookup's hv
    r_index,    \* jl_smallintset_lookup's index
    r_iter,     \* jl_smallintset_lookup's iter
    r_seen,     \* history: the slots the running lookup has loaded, in order
    r_eqs,      \* history: calls of eq in the running lookup
    r_res       \* the value jl_smallintset_lookup returns

rvars == <<r_pc, r_key, r_hv, r_index, r_iter, r_seen, r_eqs, r_res>>

vars == <<heap, pcache, nextId, hashfn, base, called, pc, val, a, rh_a, newsz, np, i,
          newa, ret, reqsz, fails, published, edges, skipped, rcache, failcap, rvars>>

\* arrays not referenced from *pcache or a local are reclaimed by the collector
Gc(h, live) == [t \in (DOMAIN h) \cap live |-> h[t]]

Cap(id) == jl_array_nrows(heap[id])

\* the values whose insert call has returned
inserted == IF pc = "idle" THEN called ELSE called \ {val}

Init ==
    /\ \E c \in Configs : hashfn = c[1] /\ base = c[2]
    /\ heap = (1 :> NewTable("any", 0))
    /\ pcache = 1
    /\ nextId = 2
    /\ called = {}
    /\ pc = "idle"
    /\ val = Zero
    /\ a = NoTable
    /\ rh_a = NoTable
    /\ newsz = 0
    /\ np = Zero
    /\ i = 0
    /\ newa = NoTable
    /\ ret = "none"
    /\ reqsz = 0
    /\ fails = 0
    /\ published = {1}
    /\ edges = {1}
    /\ skipped = FALSE
    /\ rcache = NoTable
    /\ failcap = -1
    /\ r_pc = "idle"
    /\ r_key = Zero
    /\ r_hv = 0
    /\ r_index = 0
    /\ r_iter = 0
    /\ r_seen = <<>>
    /\ r_eqs = 0
    /\ r_res = NotFound

\* the values the caller may pass next: the next index in sequence, or one
\* that is out of the domain
NextVals ==
    {W(base[1] * Base + base[2] + Cardinality(called \ ExtraVals(hashfn)))}
        \cup OutVals \cup (ExtraVals(hashfn) \ called)

\* line 162: val + 1 > jl_max_int(a)
NeedsWidening(t, v) == WLt(jl_max_int(t.el), WInc(v))

\* lines 161-163: load the table; call the widening rehash if val + 1 does not fit
InsertCall(v) ==
    /\ pc = "idle"
    /\ Cardinality(called) < MaxInserts
    \* a behaviour is followed up to the end of its first out-of-domain call
    /\ called \cap OutVals = {}
    /\ v \in NextVals
    /\ called' = called \cup {v}
    /\ val' = v
    /\ a' = pcache
    /\ IF NeedsWidening(heap[pcache], v)
       THEN /\ pc' = "rh_scan"
            /\ newsz' = Cap(pcache)
            /\ np' = WInc(v)
            /\ ret' = "widen"
            /\ reqsz' = Cap(pcache)
       ELSE /\ pc' = "ins_try"
            /\ UNCHANGED <<newsz, np, ret, reqsz>>
    /\ UNCHANGED <<pcache, nextId, hashfn, base, failcap, rvars, skipped, rh_a, i, newa, fails, published, edges, rcache>>
    /\ heap' = Gc(heap, {pcache', a', rh_a', newa', rcache'})

\* mutant: the loop keeps the table loaded before the rehash
InsertTargetStale == IF a # NoTable THEN a ELSE pcache

\* line 165: a = jl_atomic_load_relaxed(pcache)
InsertTarget == pcache

\* lines 165-167: reload the table and try the direct placement
InsertTry ==
    /\ pc = "ins_try"
    /\ \E cur \in {InsertTarget} :
       \E r \in {smallintset_insert_(heap[cur], Hash(hashfn, base, val), WInc(val))} :
           /\ IF r.ok
              THEN /\ pc' = "idle"
                   /\ val' = Zero
                   /\ a' = NoTable
              ELSE /\ pc' = "ins_grow"
                   /\ a' = cur
                   /\ UNCHANGED val
           /\ failcap' = IF r.ok THEN -1 ELSE jl_array_nrows(heap[cur])
           /\ UNCHANGED <<pcache, nextId, hashfn, base, rvars, skipped, called, rh_a, newsz, np, i, newa,
                          ret, reqsz, fails, published, edges, rcache>>
           /\ heap' = Gc([heap EXCEPT ![cur] = r.t], {pcache', a', rh_a', newa', rcache'})

\* mutant: the capacity grows by a fixed increment
GrowNewszStep(sz) == IF sz < HT_N_INLINE THEN HT_N_INLINE ELSE sz + HT_N_INLINE

\* mutant: a table at or above the baseline capacity is rebuilt at its own capacity
GrowNewszSame(sz) == IF sz < HT_N_INLINE THEN HT_N_INLINE ELSE sz

\* mutant: the capacity is doubled in the middle range too
GrowNewszDouble(sz) == IF sz < HT_N_INLINE THEN HT_N_INLINE ELSE sz * 2

\* lines 176-181: the capacity asked of the growth rehash
GrowNewsz(sz) ==
    IF sz < HT_N_INLINE THEN HT_N_INLINE
    ELSE IF sz >= 2^19 \/ sz <= 2^8 THEN sz * 2
    ELSE sz * 4

\* line 182: the np passed to the growth rehash
GrowNp(v) == Zero

\* lines 173-182: table full; call the growth rehash
InsertGrow ==
    /\ pc = "ins_grow"
    /\ a' = pcache
    /\ newsz' = GrowNewsz(Cap(pcache))
    /\ reqsz' = GrowNewsz(Cap(pcache))
    /\ np' = GrowNp(val)
    /\ ret' = "grow"
    /\ pc' = "rh_scan"
    /\ UNCHANGED <<pcache, nextId, hashfn, base, failcap, rvars, skipped, called, val, rh_a, i, newa, fails, published,
                   edges, rcache>>
    /\ heap' = Gc(heap, {pcache', a', rh_a', newa', rcache'})

\* lines 191-195: the largest of np and the slot values of t
MaxSlot(t, m) ==
    LET S == {jl_intref(t, k) : k \in 0..(jl_array_nrows(t) - 1)} \cup {m}
    IN  CHOOSE x \in S : \A y \in S : WLe(y, x)

\* lines 188-195: load the old table and compute np
RehashScan ==
    /\ pc = "rh_scan"
    /\ rh_a' = pcache
    /\ np' = MaxSlot(heap[pcache], np)
    /\ fails' = 0
    /\ pc' = "rh_alloc"
    /\ UNCHANGED <<pcache, nextId, hashfn, base, failcap, rvars, skipped, called, val, a, newsz, i, newa, ret, reqsz,
                   published, edges, rcache>>
    /\ heap' = Gc(heap, {pcache', a', rh_a', newa', rcache'})

\* line 197: allocate the zeroed new table (an assertion that is compiled out,
\* or that holds, lets the allocation go on)
RehashAlloc ==
    /\ pc = "rh_alloc"
    /\ newsz <= MaxCap
    /\ skipped' = (skipped \/ AllocAssertFails(np))
    /\ newa' = nextId
    /\ nextId' = nextId + 1
    /\ i' = 0
    /\ pc' = "rh_fill"
    /\ UNCHANGED <<pcache, hashfn, base, failcap, rvars, called, val, a, rh_a, newsz, np, ret, reqsz, fails,
                   published, edges, rcache>>
    /\ heap' = Gc(heap @@ (nextId :> jl_alloc_int_1d(np, newsz)),
                  {pcache', a', rh_a', newa', rcache'})

\* line 97: the assertion of jl_alloc_int_1d fails and the process aborts
RehashAllocAbort ==
    /\ pc = "rh_alloc"
    /\ AllocAssertFails(np)
    /\ ~skipped
    /\ pc' = "aborted"
    /\ UNCHANGED <<heap, pcache, nextId, hashfn, base, failcap, rvars, skipped, called, val, a, rh_a, newsz, np, i, newa,
                   ret, reqsz, fails, published, edges, rcache>>

\* mutant: the scan resumes one slot too far
NextNonZeroSkip(t, k) ==
    LET S == {j \in (k + 1)..(jl_array_nrows(t) - 1) : jl_intref(t, j) # Zero}
    IN  IF S = {} THEN jl_array_nrows(t)
        ELSE CHOOSE j \in S : \A m \in S : j <= m

\* the first index >= k of a non-zero slot of t, or its length
NextNonZero(t, k) ==
    LET S == {j \in k..(jl_array_nrows(t) - 1) : jl_intref(t, j) # Zero}
    IN  IF S = {} THEN jl_array_nrows(t)
        ELSE CHOOSE j \in S : \A m \in S : j <= m

\* lines 199-206: the loop up to and including the next reinsertion
RehashReinsert ==
    /\ pc = "rh_fill"
    /\ \E j \in {NextNonZero(heap[rh_a], i)} :
           IF j = jl_array_nrows(heap[rh_a])
           THEN /\ i' = j
                /\ pc' = "rh_check"
                /\ UNCHANGED heap
           ELSE \E val1 \in {jl_intref(heap[rh_a], j)} :
                \E r \in {smallintset_insert_(heap[newa], Hash(hashfn, base, WDec(val1)), val1)} :
                    /\ heap' = [heap EXCEPT ![newa] = r.t]
                    /\ IF r.ok
                       THEN i' = j + 1 /\ pc' = "rh_fill"
                       ELSE i' = j /\ pc' = "rh_check"
    /\ UNCHANGED <<pcache, nextId, hashfn, base, failcap, rvars, skipped, called, val, a, rh_a, newsz, np, newa, ret, reqsz,
                   fails, published, edges, rcache>>

\* mutant: the new table is published whether or not the loop broke off
RehashCompleteAlways == TRUE

\* line 208: i == sz, every entry of the old table was reinserted
RehashComplete == i = jl_array_nrows(heap[rh_a])

\* lines 208-209: publish the new table
RehashPublish ==
    /\ pc = "rh_check"
    /\ RehashComplete
    /\ pcache' = newa
    /\ published' = published \cup {newa}
    /\ pc' = "rh_wb"
    /\ UNCHANGED <<nextId, hashfn, base, failcap, rvars, skipped, called, val, a, rh_a, newsz, np, i, newa, ret, reqsz,
                   fails, edges, rcache>>
    /\ heap' = Gc(heap, {pcache', a', rh_a', newa', rcache'})

\* mutant: the capacity is quadrupled after a failed reinsertion
RetryNewszQuad(sz) == sz * 4

\* line 213: newsz <<= 1
RetryNewsz(sz) == sz * 2

\* lines 208, 213: a reinsertion failed; drop the new table and double newsz
RehashRetry ==
    /\ pc = "rh_check"
    /\ ~RehashComplete
    /\ newsz' = RetryNewsz(newsz)
    /\ fails' = fails + 1
    /\ newa' = NoTable
    /\ pc' = "rh_alloc"
    /\ UNCHANGED <<pcache, nextId, hashfn, base, failcap, rvars, skipped, called, val, a, rh_a, np, i, ret, reqsz,
                   published, edges, rcache>>
    /\ heap' = Gc(heap, {pcache', a', rh_a', newa', rcache'})

\* mutant: the barrier is left out
WriteBarrierMissing(e, t) == e

\* line 210: jl_gc_wb(parent, newa)
WriteBarrier(e, t) == e \cup {t}

\* lines 210-211: register the ownership edge and return to jl_smallintset_insert
RehashWb ==
    /\ pc = "rh_wb"
    /\ edges' = WriteBarrier(edges, newa)
    /\ pc' = "ins_try"
    /\ rh_a' = NoTable
    /\ newa' = NoTable
    /\ newsz' = 0
    /\ np' = Zero
    /\ i' = 0
    /\ ret' = "none"
    /\ reqsz' = 0
    /\ fails' = 0
    /\ UNCHANGED <<pcache, nextId, hashfn, base, failcap, rvars, skipped, called, val, a, published, rcache>>
    /\ heap' = Gc(heap, {pcache', a', rh_a', newa', rcache'})

\* line 109: a reader enters jl_smallintset_lookup with the table it loaded
ReaderLoad ==
    /\ rcache = NoTable
    /\ rcache' = pcache
    /\ UNCHANGED <<heap, pcache, nextId, hashfn, base, failcap, rvars, skipped, called, pc, val, a, rh_a, newsz, np, i,
                   newa, ret, reqsz, fails, published, edges>>

\* lines 122-133: the reader returns and drops its reference
ReaderReturn ==
    /\ rcache # NoTable
    /\ rcache' = NoTable
    /\ UNCHANGED <<pcache, nextId, hashfn, base, failcap, rvars, skipped, called, pc, val, a, rh_a, newsz, np, i,
                   newa, ret, reqsz, fails, published, edges>>
    /\ heap' = Gc(heap, {pcache', a', rh_a', newa', rcache'})

Next ==
    \/ \E v \in NextVals : InsertCall(v)
    \/ InsertTry
    \/ InsertGrow
    \/ RehashScan
    \/ RehashAlloc
    \/ RehashAllocAbort
    \/ RehashReinsert
    \/ RehashPublish
    \/ RehashRetry
    \/ RehashWb
    \/ ReaderLoad
    \/ ReaderReturn

Spec == Init /\ [][Next]_vars

\* the steps of the thread that runs jl_smallintset_insert
WriterNext ==
    \/ \E v \in NextVals : InsertCall(v)
    \/ InsertTry
    \/ InsertGrow
    \/ RehashScan
    \/ RehashAlloc
    \/ RehashAllocAbort
    \/ RehashReinsert
    \/ RehashPublish
    \/ RehashRetry
    \/ RehashWb

\* the writer is a running thread: it takes no lock and waits for nothing, so
\* whenever it has a next statement it eventually executes it
FairSpec == Spec /\ WF_vars(WriterNext)

\* ------------------------------------------------------------------ claims
\* the non-zero slot values of a table, each with the number of slots holding it
Entries(t) ==
    LET vs == {jl_intref(t, k) : k \in 0..(jl_array_nrows(t) - 1)} \ {Zero}
    IN  [v \in vs |-> Cardinality({k \in 0..(jl_array_nrows(t) - 1) : jl_intref(t, k) = v})]

\* every call so far passed an index below 2^31
InDomain == called \cap OutVals = {}

\* C1: once the insert of v has returned, a lookup on the current table with
\* hash(v) and an eq that accepts exactly v returns v, also after every later
\* insert, growth or widening (indices pairwise distinct and below 2^31).
C1_RoundTrip ==
    InDomain =>
        \A v \in inserted :
            jl_smallintset_lookup(heap[pcache], v, Hash(hashfn, base, v)) = v

\* C2: the element width of the current table can hold v + 1 for every inserted
\* v, and every non-zero slot holds v + 1 for an inserted v, never a truncation.
C2_WidthSufficient ==
    InDomain =>
        /\ \A v \in inserted : WLe(WInc(v), jl_max_int(heap[pcache].el))
        /\ \A s \in DOMAIN Entries(heap[pcache]) : WDec(s) \in inserted

\* C3: the element width of the table a replacement publishes is never smaller
\* than the width of the table it replaces.
C3_WidthMonotone ==
    [][InDomain => WLe(jl_max_int(heap[pcache].el), jl_max_int(heap'[pcache'].el))]_vars

\* C4: the shared reference, and every reference a reader captured, never points
\* to the table a rehash is filling; while a rehash fills its table the shared
\* reference stays on the old table, and the table it moves to in one step
\* holds exactly the entries of the old one.
C4_NoPartialTable ==
    /\ pc \in {"rh_fill", "rh_check"} =>
            /\ newa \notin {pcache, rcache}
            /\ pcache = rh_a
    /\ pc = "rh_wb" =>
            /\ pcache = newa
            /\ Entries(heap[newa]) = Entries(heap[rh_a])
    /\ rcache # NoTable => rcache \in published

\* C4 witness: a reader holds the current table while a rehash has filled part
\* of its new table
C4_Witness ==
    /\ pc = "rh_fill"
    /\ i > 0
    /\ rcache = pcache
    /\ Entries(heap[newa]) # Entries(heap[rh_a])
    /\ DOMAIN Entries(heap[newa]) # {}

\* C5: once a table has been superseded, no step of the writer changes any of
\* its slots.
C5_SupersededFrozen ==
    [][\A t \in (DOMAIN heap) \cap (DOMAIN heap') :
          (t \in published /\ t # pcache) => heap'[t] = heap[t]]_vars

\* C5 witness: a reader still holds a superseded, non-empty table after the
\* writer has stored further values in the current table
C5_Witness ==
    /\ rcache # NoTable
    /\ rcache # pcache
    /\ pc = "idle"
    /\ DOMAIN Entries(heap[rcache]) # {}
    /\ DOMAIN Entries(heap[rcache]) # DOMAIN Entries(heap[pcache])

\* C6 as claimed: in no state does the shared reference point to a table whose
\* ownership edge is not registered.
C6_EdgeBeforePublish == pcache \in edges

\* C6 as amended: the edge of the current table is missing only while the writer
\* stands between the publishing store and the barrier that follows it.
C6_EdgeRightAfterPublish ==
    pcache \notin edges => (pc = "rh_wb" /\ newa = pcache)

\* C6 witness: a reader has captured the new table before its edge is registered
C6_Witness ==
    /\ pc = "rh_wb"
    /\ pcache \notin edges
    /\ rcache = pcache

\* GrowthPolicy as the claim states it
PolicyCap(sz) ==
    IF sz < HT_N_INLINE THEN HT_N_INLINE
    ELSE IF sz >= 2^19 \/ sz <= 2^8 THEN 2 * sz
    ELSE 4 * sz

\* C7 as claimed: the table a growth rehash publishes has capacity
\* GrowthPolicy(current capacity).
C7_GrowthExact ==
    [][(InDomain /\ ret = "grow" /\ pcache' # pcache) =>
          jl_array_nrows(heap'[pcache']) = PolicyCap(Cap(pcache))]_vars

\* C7 as amended: the capacity is GrowthPolicy(current capacity) times 2^k, k
\* the number of attempts of that rehash in which a reinsertion failed.
C7_GrowthTimesRetries ==
    [][(ret = "grow" /\ pcache' # pcache) =>
          jl_array_nrows(heap'[pcache']) = PolicyCap(Cap(pcache)) * 2^fails]_vars

\* C7 witness: a growth rehash has published after a failed attempt
C7_Witness ==
    /\ pc = "rh_wb"
    /\ ret = "grow"
    /\ fails >= 1
    /\ InDomain

\* C8 as claimed: the widening rehash publishes, before val + 1 is written, a
\* table of the same capacity whose width can hold val + 1.
C8_WideningSameCap ==
    [][(InDomain /\ ret = "widen" /\ pcache' # pcache) =>
          /\ jl_array_nrows(heap'[pcache']) = Cap(pcache)
          /\ WLe(WInc(val), jl_max_int(heap'[pcache'].el))
          /\ Entries(heap'[pcache']) = Entries(heap[pcache])]_vars

\* C8 as amended: the capacity is the old capacity times 2^k, k the number of
\* attempts of that rehash in which a reinsertion failed; the width can hold
\* val + 1 for val below 2^31, and val + 1 is not yet in any slot.
C8_WideningTimesRetries ==
    [][(ret = "widen" /\ pcache' # pcache) =>
          /\ jl_array_nrows(heap'[pcache']) = Cap(pcache) * 2^fails
          /\ val \notin OutVals => WLe(WInc(val), jl_max_int(heap'[pcache'].el))
          /\ Entries(heap'[pcache']) = Entries(heap[pcache])]_vars

\* C8 witness: a widening rehash of a non-empty table has published after a
\* failed attempt, for an index below 2^31
C8_Witness ==
    /\ pc = "rh_wb"
    /\ ret = "widen"
    /\ fails >= 1
    /\ InDomain
    /\ jl_array_nrows(heap[rh_a]) = HT_N_INLINE
    /\ jl_array_nrows(heap[pcache]) = HT_N_INLINE * 2^fails

\* C9: an insert call with an index at or beyond 2^31 never returns, and it
\* fills no slot of the current table (stated of the builds that keep their
\* assertions).
C9_OutOfDomainFatal ==
    ~skipped =>
    \A v \in called \cap OutVals :
        /\ v \notin inserted
        /\ Cardinality({k \in 0..(Cap(pcache) - 1) : jl_intref(heap[pcache], k) # Zero})
              <= Cardinality(called \ OutVals)

\* the smallest of the three widths whose maximum is >= n
Narrowest(n) ==
    IF WLe(n, <<0, 255>>) THEN "u8"
    ELSE IF WLe(n, <<0, Base - 1>>) THEN "u16"
    ELSE "u32"

\* C10: the table a rehash allocates for np has the narrowest width that can
\* hold np.
C10_NarrowestWidth ==
    (InDomain /\ pc \in {"rh_fill", "rh_check", "rh_wb"}) =>
        heap[newa].el = Narrowest(np)

\* --------------------------------------------- the reader, slot by slot
wvars == <<pcache, nextId, hashfn, base, called, pc, val, a, rh_a, newsz, np, i, newa,
           ret, reqsz, fails, published, edges, skipped, failcap>>

\* lines 109-118: the caller loads *pcache and calls jl_smallintset_lookup
LookupCall(key, hv) ==
    /\ r_pc = "idle"
    /\ rcache = NoTable
    /\ rcache' = pcache
    /\ r_key' = key
    /\ r_hv' = hv
    /\ r_iter' = 0
    /\ r_seen' = <<>>
    /\ r_eqs' = 0
    /\ r_res' = NotFound
    /\ IF Cap(pcache) = 0
       THEN r_pc' = "done" /\ r_index' = 0
       ELSE r_pc' = "probe" /\ r_index' = h2index(hv, Cap(pcache))
    /\ UNCHANGED <<heap, wvars>>

\* mutant: no slot value is taken for the empty slot
SlotEmptyNever(val1) == FALSE

\* line 121: val1 == 0
SlotEmpty(val1) == val1 = Zero

\* mutant: the loop does not stop when the probe wraps around to its start
LookupGoesOnNoWrap(iter, index, orig, sz) == iter <= max_probe(sz)

\* line 131: while (iter <= maxprobe && index != orig)
LookupGoesOn(iter, index, orig, sz) == iter <= max_probe(sz) /\ index # orig

\* lines 119-133: one pass of the do-while, from the load of slot index
LookupStep ==
    /\ r_pc = "probe"
    /\ \E sz \in {Cap(rcache)} :
       \E val1 \in {jl_intref(heap[rcache], r_index)} :
           /\ r_seen' = Append(r_seen, r_index)
           /\ IF SlotEmpty(val1)
              THEN /\ r_pc' = "done"
                   /\ r_res' = NotFound
                   /\ UNCHANGED <<r_index, r_iter, r_eqs>>
              ELSE /\ r_eqs' = r_eqs + 1
                   /\ IF WDec(val1) = r_key
                      THEN /\ r_pc' = "done"
                           /\ r_res' = WDec(val1)
                           /\ UNCHANGED <<r_index, r_iter>>
                      ELSE /\ r_index' = BitAnd(r_index + 1, sz - 1)
                           /\ r_iter' = r_iter + 1
                           /\ r_pc' = IF LookupGoesOn(r_iter', r_index', h2index(r_hv, sz), sz)
                                      THEN "probe" ELSE "done"
                           /\ r_res' = NotFound
    /\ UNCHANGED <<heap, rcache, r_key, r_hv, wvars>>

\* lines 123, 127, 133: jl_smallintset_lookup returns; the caller drops the table
LookupReturn ==
    /\ r_pc = "done"
    /\ r_pc' = "idle"
    /\ rcache' = NoTable
    /\ r_key' = Zero
    /\ r_hv' = 0
    /\ r_index' = 0
    /\ r_iter' = 0
    /\ r_seen' = <<>>
    /\ r_eqs' = 0
    /\ r_res' = NotFound
    /\ UNCHANGED wvars
    /\ heap' = Gc(heap, {pcache', a', rh_a', newa', rcache'})

\* ------------------------------------- lookup alone, on a table that is given
\* a table of capacity c whose n slots from start on (cyclically) hold 1..n
Filled(c, start, n) ==
    [el |-> "u16",
     slots |-> [k \in 1..c |->
                   LET off == ((k - 1) - start + c) % c
                   IN  IF off < n THEN W(off + 1) ELSE Zero]]

TestCaps == {0, 1, 2, 3, 4, 8, 32, 2048}

TestKeys == {W(0), W(7), W(17), W(39), W(99)}

TestHashes == {0, 1, 7, 30, 31, 2047, 65535}

InitLookup ==
    /\ hashfn = "id"
    /\ base = Zero
    /\ \E t \in {x \in [c : TestCaps, start : {0, 1, 30}, n : {0, 1, 2, 8, 18, 40}] :
                      x.start < x.c \/ x.start = 0} :
           heap = (1 :> Filled(t.c, t.start, IF t.n > t.c THEN t.c ELSE t.n))
    /\ pcache = 1
    /\ nextId = 2
    /\ called = {}
    /\ pc = "idle"
    /\ val = Zero
    /\ a = NoTable
    /\ rh_a = NoTable
    /\ newsz = 0
    /\ np = Zero
    /\ i = 0
    /\ newa = NoTable
    /\ ret = "none"
    /\ reqsz = 0
    /\ fails = 0
    /\ published = {1}
    /\ edges = {1}
    /\ skipped = FALSE
    /\ rcache = NoTable
    /\ failcap = -1
    /\ r_pc = "idle"
    /\ r_key = Zero
    /\ r_hv = 0
    /\ r_index = 0
    /\ r_iter = 0
    /\ r_seen = <<>>
    /\ r_eqs = 0
    /\ r_res = NotFound

NextLookup ==
    \/ \E key \in TestKeys, hv \in TestHashes : LookupCall(key, hv)
    \/ LookupStep
    \/ LookupReturn

LookupSpec == InitLookup /\ [][NextLookup]_vars

\* ---------------------------- a reader that probes while the writer runs
\* the callers followed with a concurrent reader
ReaderConfigs == {<<"cluster", W(237)>>, <<"id", W(65534)>>}

InitReader == Init /\ <<hashfn, base>> \in ReaderConfigs

\* the reader looks up indices whose insert has returned, with their hash
NextReader ==
    \/ WriterNext
    \/ \E key \in inserted : LookupCall(key, Hash(hashfn, base, key))
    \/ LookupStep
    \/ LookupReturn

ReaderSpec == InitReader /\ [][NextReader]_vars

\* C11: Insert terminates by growth. Within one call of jl_smallintset_insert,
\* a direct placement that follows a failed one runs against a table of
\* strictly larger capacity than the failed one did, and every call with an
\* index of the domain returns.
C11_TerminatesByGrowth ==
    /\ []((pc = "ins_try" /\ failcap # -1) => Cap(pcache) > failcap)
    /\ ((pc # "idle" /\ InDomain) ~> (pc = "idle"))

\* a placement is retried after several failed ones in the same call
C11_Witness ==
    /\ pc = "ins_try"
    /\ failcap >= 2 * HT_N_INLINE
    /\ Cap(pcache) > failcap
    /\ InDomain

\* C12: Slot uniqueness. The caller inserts pairwise distinct indices; in every
\* reachable state every non-zero slot value of the current table occurs in
\* exactly one slot of that table.
C12_SlotUnique ==
    InDomain => \A s \in DOMAIN Entries(heap[pcache]) : Entries(heap[pcache])[s] = 1

ZeroOrPowerOfTwo(n) == BitAnd(n, n - 1) = 0

\* C13: Capacity invariant. The capacity of every table that was ever stored
\* to *pcache is zero or a power of two, and for the current table the bitmask
\* hv & (sz - 1) equals hv mod sz for the hash of every index the caller passed.
C13_CapacityPowerOfTwo ==
    /\ \A t \in published \cap DOMAIN heap : ZeroOrPowerOfTwo(jl_array_nrows(heap[t]))
    /\ Cap(pcache) > 0 =>
           \A v \in called :
               h2index(Hash(hashfn, base, v), Cap(pcache)) = Hash(hashfn, base, v) % Cap(pcache)

\* a table of four times the capacity of its predecessor has just been published
C13_Witness ==
    /\ pc = "rh_wb"
    /\ ret = "grow"
    /\ Cap(pcache) = 4 * jl_array_nrows(heap[rh_a])
    /\ called # {}

AllZero(t) == \A k \in 0..(jl_array_nrows(t) - 1) : jl_intref(t, k) = Zero

\* C14: Sentinel integrity. On an all-zero table of any capacity, zero
\* included, lookup returns NotFound for every hash value and every key, after
\* at most one slot load and without a call of eq.
C14_SentinelIntegrity ==
    /\ (rcache # NoTable /\ AllZero(heap[rcache])) =>
           /\ r_eqs = 0
           /\ r_pc = "done" => (r_res = NotFound /\ Len(r_seen) <= 1)
    /\ AllZero(heap[pcache]) =>
           \A key \in TestKeys, hv \in TestHashes :
               jl_smallintset_lookup(heap[pcache], key, hv) = NotFound

\* a lookup on an all-zero table of capacity 1 has loaded its slot and is done
C14_Witness ==
    /\ r_pc = "done"
    /\ rcache # NoTable
    /\ Cap(rcache) = 1
    /\ AllZero(heap[rcache])
    /\ r_seen = <<0>>

ClaimMaxProbe(sz) == IF sz <= 1024 THEN 16 ELSE sz \div 64

Min(x, y) == IF x <= y THEN x ELSE y

\* C15: Probe sequence shape. For hash hv and a capacity sz > 0 (a power of
\* two), lookup loads the slots hv mod sz, hv + 1 mod sz, ... in that order, at
\* most min(maxProbe + 1, sz) of them and none twice, passes only slots that
\* are neither empty nor equal to the key, and stops at the first empty slot
\* (NotFound), at the first slot eq accepts (that index), or at the limit.
C15_ProbeShape ==
    (rcache # NoTable /\ Cap(rcache) > 0 /\ ZeroOrPowerOfTwo(Cap(rcache))) =>
        LET t == heap[rcache]
            sz == Cap(rcache)
            n == Len(r_seen)
            lim == Min(ClaimMaxProbe(sz) + 1, sz)
            empty(k) == jl_intref(t, r_seen[k]) = Zero
            match(k) == jl_intref(t, r_seen[k]) # Zero /\ WDec(jl_intref(t, r_seen[k])) = r_key
        IN  /\ \A k \in 1..n : r_seen[k] = (r_hv + k - 1) % sz
            /\ n <= lim
            /\ \A j, k \in 1..n : j # k => r_seen[j] # r_seen[k]
            /\ \A k \in 1..(n - 1) : ~empty(k) /\ ~match(k)
            /\ r_pc = "probe" => (n < lim /\ (n > 0 => (~empty(n) /\ ~match(n))))
            /\ r_pc = "done" =>
                   /\ n >= 1
                   /\ IF empty(n) THEN r_res = NotFound
                      ELSE IF match(n) THEN r_res = r_key
                      ELSE r_res = NotFound /\ n = lim
                   /\ r_res = jl_smallintset_lookup(t, r_key, r_hv)

\* a lookup in a table of 2048 slots gave up after maxProbe + 1 = 33 non-empty slots
C15_Witness ==
    /\ r_pc = "done"
    /\ rcache # NoTable
    /\ Cap(rcache) = 2048
    /\ Len(r_seen) = 33
    /\ r_res = NotFound

\* the table that results from reinserting the non-zero slots of old, in
\* increasing slot order, into the all-zero table fresh
Rebuilt(old, fresh) ==
    LET NZ == {j \in 0..(jl_array_nrows(old) - 1) : jl_intref(old, j) # Zero}
        nth(n) == CHOOSE j \in NZ : Cardinality({m \in NZ : m < j}) = n - 1
        after[n \in 0..Cardinality(NZ)] ==
            IF n = 0 THEN fresh
            ELSE smallintset_insert_(after[n - 1],
                                     Hash(hashfn, base, WDec(jl_intref(old, nth(n)))),
                                     jl_intref(old, nth(n))).t
    IN  after[Cardinality(NZ)]

\* C16: Rehash preserves content. The table a rehash publishes holds the
\* non-zero slot values of the table it replaces, each as often as there
\* (nothing lost, nothing added, not the pending value), and it is the table
\* obtained by reinserting them in increasing old-slot order, each at the
\* first empty slot of its probe sequence.
C16_RehashPreserves ==
    [][(pc = "rh_check" /\ pcache' # pcache) =>
          /\ Entries(heap'[pcache']) = Entries(heap[pcache])
          /\ heap'[pcache'] =
                 Rebuilt(heap[pcache],
                         NewTable(heap'[pcache'].el, jl_array_nrows(heap'[pcache'])))]_vars

\* a widening rehash has published a table with all the old entries, relocated,
\* and without the pending value
C16_Witness ==
    /\ pc = "rh_wb"
    /\ ret = "widen"
    /\ Entries(heap[pcache]) = Entries(heap[rh_a])
    /\ Cardinality(DOMAIN Entries(heap[pcache])) >= 18
    /\ heap[pcache].slots # heap[rh_a].slots
    /\ WInc(val) \notin DOMAIN Entries(heap[pcache])

\* C17: Rehash restart. When a reinsertion fails, the partly filled table is
\* neither published nor used again; the next attempt allocates a new
\* all-zero table of twice the capacity of the failed one and reinserts from
\* slot 0; the capacity published is the requested one times 2^fails.
C17_RehashRestart ==
    [][/\ (pc = "rh_check" /\ pc' = "rh_alloc") =>
             /\ pcache' = pcache
             /\ newa \notin published'
             /\ newa \notin DOMAIN heap'
             /\ newsz' = 2 * jl_array_nrows(heap[newa])
       /\ (pc = "rh_alloc" /\ pc' = "rh_fill") =>
             /\ newa' \notin DOMAIN heap
             /\ newa' \notin published
             /\ AllZero(heap'[newa'])
             /\ jl_array_nrows(heap'[newa']) = reqsz * 2^fails
             /\ i' = 0
       /\ (pc = "rh_check" /\ pcache' # pcache) =>
             /\ pcache' = newa
             /\ jl_array_nrows(heap'[pcache']) = reqsz * 2^fails]_vars

\* the attempt after a failed one is about to start, on an all-zero table of
\* twice the requested capacity, while the old table holds 18 entries
C17_Witness ==
    /\ pc = "rh_fill"
    /\ fails = 1
    /\ i = 0
    /\ AllZero(heap[newa])
    /\ Cap(newa) = 2 * reqsz
    /\ Cardinality(DOMAIN Entries(heap[rh_a])) = 18

\* C18: Reachability invariant. In every reachable state each non-zero slot
\* value v1 of the current table sits at most maxProbe(sz) forward steps
\* (mod sz) from the home index hash(v1 - 1) mod sz, and every slot from the
\* home index up to it is non-zero.
C18_Reachable ==
    InDomain =>
        LET t == heap[pcache]
            sz == Cap(pcache)
        IN  \A k \in 0..(sz - 1) :
                jl_intref(t, k) # Zero =>
                    LET home == Hash(hashfn, base, WDec(jl_intref(t, k))) % sz
                        d == (k - home + sz) % sz
                    IN  /\ d <= ClaimMaxProbe(sz)
                        /\ \A e \in 0..(d - 1) : jl_intref(t, (home + e) % sz) # Zero

\* C19: Visibility under concurrency. A lookup of an index whose insert
\* returned before the lookup loaded the table reference returns that index,
\* however its slot loads interleave with the later steps of the writer.
C19_Visible == (InDomain /\ r_pc = "done") => r_res = r_key

\* C20: Tables of capacity 0 or 1 never hold an element. A direct placement
\* into a table of capacity <= 1 reports failure and leaves the table as it
\* is, even when its slot is empty; an insert that finds such a table grows it
\* to HT_N_INLINE before it stores; every published table of capacity <= 1 has
\* all slots zero.
C20_TinyTablesEmpty ==
    /\ [](/\ \A el \in {"u8", "u16", "u32"}, c \in {0, 1}, hv \in TestHashes :
               LET r == smallintset_insert_(NewTable(el, c), hv, W(1))
               IN  ~r.ok /\ r.t = NewTable(el, c)
          /\ \A t \in published \cap DOMAIN heap :
               \/ AllZero(heap[t])
               \/ jl_array_nrows(heap[t]) >= HT_N_INLINE)
    /\ [][/\ (pc = "ins_try" /\ Cap(pcache) <= 1) =>
                 (pc' # "idle" /\ pcache' = pcache /\ heap'[pcache] = heap[pcache])
          /\ (pc = "ins_grow" /\ pc' # pc /\ Cap(pcache) <= 1) => newsz' = HT_N_INLINE
          /\ (ret = "grow" /\ pcache' # pcache /\ Cap(pcache) <= 1) =>
                 jl_array_nrows(heap'[pcache']) = HT_N_INLINE]_vars

\* a direct placement into an all-zero integer table of capacity 0 has failed
C20_Witness ==
    /\ pc = "ins_grow"
    /\ failcap = 0
    /\ heap[pcache].el # "any"
    /\ AllZero(heap[pcache])

====
